---- MODULE Spec2Model ----
(***************************************************************************)
(* A model of src/blackjack.py: the Card/Deck/Player/BlackJackGame classes *)
(* and the game loop of the __main__ block, one action per step of the     *)
(* loop.  A card is represented by its position (1..52) in the order in    *)
(* which Deck.__init__ builds the deck; CardVal and CardSuit give the      *)
(* fields of the Card object built at that position.                       *)
(***************************************************************************)
EXTENDS Integers, Sequences, FiniteSets, TLC

VARIABLES
    deck,        \* game.deck._deck: sequence of cards, front = top
    playerHand,  \* player.hand
    dealerHand,  \* game.dealer.hand
    bank,        \* player.bank
    bet,         \* bet (0 while no bet is accepted)
    pc,          \* position of the __main__ script
    rounds,      \* number of rounds started (bounds the exploration)
    hits         \* number of hits taken in this round (bounds the exploration)

vars == <<deck, playerHand, dealerHand, bank, bet, pc, rounds, hits>>

(***************************************************************************)
(* Bounds of the exploration.                                              *)
(***************************************************************************)
MaxRounds == 2
MaxHits == 4
MaxEvalHand == 6

(***************************************************************************)
(* Program constants.                                                      *)
(***************************************************************************)
InitialBank == 100
HitCounterLimit == 3
DealerStandsAt == 17
BustLimit == 21
DealerBustAt == 22
DealerBank == 1000000

Range(s) == {s[i] : i \in DOMAIN s}

(***************************************************************************)
(* Card and Deck                                                           *)
(***************************************************************************)
suits == <<"Hearts", "Diamonds", "Clubs", "Spades">>
cards == <<"2", "3", "4", "5", "6", "7", "8", "9", "10", "J", "Q", "K", "A">>

DeckSize == Len(cards) * Len(suits)

CardVal(c) == cards[((c - 1) \div Len(suits)) + 1]
CardSuit(c) == suits[((c - 1) % Len(suits)) + 1]
Card(c) == [suit |-> CardSuit(c), val |-> CardVal(c)]

\* Deck(jokers=False): for card in cards: for suit in suits: append
NewDeck == [i \in 1..DeckSize |-> i]

\* Deck.peek on a non-empty deck: self._deck[0]
peek(d) == Head(d)

\* Deck.peek raises IndexError('Deck is out of cards.'): no self._deck[0]
peek_raises(d) == Len(d) = 0

\* Deck.draw raises IndexError('Deck is out of cards.'): pop(0) of an empty list
draw_raises(d) == Len(d) = 0

\* mutant: the top card is returned but not removed from the deck
draw_NoPop(d) == [card |-> Head(d), deck |-> d]

\* Deck.draw on a non-empty deck: pop(0)
draw(d) == [card |-> Head(d), deck |-> Tail(d)]

\* Player.draw_card: self.hand.append(deck.draw())
draw_card(hand, d) == [hand |-> Append(hand, draw(d).card), deck |-> draw(d).deck]

(***************************************************************************)
(* random.shuffle: any permutation of the deck may result.  The outcomes   *)
(* explored are the permutations that put ShuffleTopCount distinct cards   *)
(* of ShufflePool on top, in any order, followed by the other cards of the *)
(* deck from the highest position of Deck.__init__ down to the lowest.     *)
(***************************************************************************)
CardOf(v, s) == CHOOSE c \in 1..DeckSize : CardVal(c) = v /\ CardSuit(c) = s

ShufflePool ==
    {CardOf("A", "Hearts"), CardOf("A", "Diamonds"), CardOf("K", "Hearts"),
     CardOf("10", "Hearts"), CardOf("6", "Hearts")}

\* the cards one start_round deals: two passes, player and dealer
ShuffleTopCount == 2 * 2

ShuffleTops ==
    {t \in [1..ShuffleTopCount -> ShufflePool] :
        \A i, j \in 1..ShuffleTopCount : i # j => t[i] # t[j]}

Descending == [i \in 1..DeckSize |-> DeckSize + 1 - i]

\* the order with t on top and the other cards of sorted below it
ShuffleOrder(t, sorted) ==
    LET top == Range(t) IN t \o SelectSeq(sorted, LAMBDA c : c \notin top)

\* the outcomes for a deck that holds every card (computed once)
ShuffleOrders == {ShuffleOrder(t, Descending) : t \in ShuffleTops}

ShuffleOutcomes(d) ==
    LET present == Range(d)
    IN  IF present = 1..DeckSize
        THEN ShuffleOrders
        ELSE {ShuffleOrder(t, SelectSeq(Descending, LAMBDA c : c \in present)) :
                t \in {u \in ShuffleTops : Range(u) \subseteq present}}

(***************************************************************************)
(* Hand evaluation (BlackJackGame)                                         *)
(***************************************************************************)
NumericVals == <<"2", "3", "4", "5", "6", "7", "8", "9", "10">>

\* int(card.val) succeeds exactly on the decimal strings
IsInt(v) == \E n \in DOMAIN NumericVals : NumericVals[n] = v
ParseInt(v) == 1 + CHOOSE n \in DOMAIN NumericVals : NumericVals[n] = v

\* what one card adds to total_value in the loop of get_best_value
CardPoints(c) ==
    IF IsInt(CardVal(c)) THEN ParseInt(CardVal(c))
    ELSE IF CardVal(c) \in {"K", "Q", "J"} THEN 10 ELSE 0

RECURSIVE SumPoints(_)
SumPoints(hand) ==
    IF hand = <<>> THEN 0 ELSE CardPoints(Head(hand)) + SumPoints(Tail(hand))

\* len(aces)
NumAces(hand) == Len(SelectSeq(hand, LAMBDA c : CardVal(c) = "A"))

\* mutant: an ace is always counted high when there is one
account_for_aces_AlwaysHigh(curr_total, num_aces) ==
    IF num_aces = 0 THEN 0 ELSE 11 + (num_aces - 1)

\* mutant: the high value is refused already at 21
account_for_aces_OffByOne(curr_total, num_aces) ==
    IF num_aces = 0 THEN 0
    ELSE IF (11 + (num_aces - 1)) + curr_total >= BustLimit
         THEN 1 + (num_aces - 1) ELSE 11 + (num_aces - 1)

account_for_aces(curr_total, num_aces) ==
    IF num_aces = 0 THEN 0
    ELSE LET ace_values == <<1 + (num_aces - 1), 11 + (num_aces - 1)>>
         IN  IF ace_values[2] + curr_total > BustLimit
             THEN ace_values[1] ELSE ace_values[2]

get_best_value(hand) ==
    SumPoints(hand) + account_for_aces(SumPoints(hand), NumAces(hand))

\* mutant: no hand is ever reported bust
check_busted_Never(hand) == FALSE

check_busted(hand) == get_best_value(hand) > BustLimit

(***************************************************************************)
(* BlackJackGame.deal_round_of_cards and start_round.  A table is the      *)
(* record of the deck and the two hands the game object reaches.           *)
(***************************************************************************)
Table(d, p, q) == [deck |-> d, player |-> p, dealer |-> q]

\* mutant: the dealer is dealt before the player
deal_round_of_cards_DealerFirst(t, playerBank) ==
    LET t1 == [t EXCEPT !.dealer = draw_card(t.dealer, t.deck).hand,
                        !.deck = draw_card(t.dealer, t.deck).deck]
    IN  IF playerBank > 0
        THEN [t1 EXCEPT !.player = draw_card(t1.player, t1.deck).hand,
                        !.deck = draw_card(t1.player, t1.deck).deck]
        ELSE t1

\* mutant: the player is dealt whatever the bank holds
deal_round_of_cards_IgnoresBank(t, playerBank) ==
    LET t1 == [t EXCEPT !.player = draw_card(t.player, t.deck).hand,
                        !.deck = draw_card(t.player, t.deck).deck]
    IN  [t1 EXCEPT !.dealer = draw_card(t1.dealer, t1.deck).hand,
                   !.deck = draw_card(t1.dealer, t1.deck).deck]

deal_round_of_cards(t, playerBank) ==
    LET t1 == IF playerBank > 0
              THEN [t EXCEPT !.player = draw_card(t.player, t.deck).hand,
                             !.deck = draw_card(t.player, t.deck).deck]
              ELSE t
    IN  [t1 EXCEPT !.dealer = draw_card(t1.dealer, t1.deck).hand,
                   !.deck = draw_card(t1.dealer, t1.deck).deck]

\* start_round after the shuffle produced the order `shuffled`
start_round(t, shuffled, playerBank) ==
    deal_round_of_cards(
        deal_round_of_cards([t EXCEPT !.deck = shuffled], playerBank),
        playerBank)

\* show_player_hand
show_player_hand(hand, show_all) == IF show_all THEN hand ELSE Tail(hand)

(***************************************************************************)
(* The __main__ script.  pc names the line the script is at:               *)
(*   "bet"     the bet prompt of the loop `while not bet`      (line 177)  *)
(*   "deal"    a bet is accepted, before game.start_round()    (line 186)  *)
(*   "turn"    top of the player's loop `while True`           (line 189)  *)
(*   "result"  after the player's loop                         (line 212)  *)
(*   "dealer"  the test of the dealer's loop                   (line 220)  *)
(*   "discard" after the bank is settled                       (line 236)  *)
(*   "over"    game_in_progress is False, the script has ended             *)
(*   "error"   the script has ended on an uncaught exception               *)
(***************************************************************************)
Init ==
    /\ deck = NewDeck
    /\ playerHand = <<>>
    /\ dealerHand = <<>>
    /\ bank = InitialBank
    /\ bet = 0
    /\ pc = "bet"
    /\ rounds = 0
    /\ hits = 0

\* the integers typed at the bet prompt
BetInputs == {-1, 0, 1, bank, bank + 1}

\* mutant: a bet above the bank is accepted
AcceptedBet_NoUpperCheck(n) == IF n < 0 THEN 0 ELSE n

\* lines 179-181: the value of bet after one integer input
AcceptedBet(n) == IF n < 0 \/ n > bank THEN 0 ELSE n

\* lines 177-181, one pass of `while not bet` on an integer input
PlaceBet ==
    /\ pc = "bet"
    /\ rounds < MaxRounds
    /\ \E n \in BetInputs :
        /\ bet' = AcceptedBet(n)
        /\ pc' = IF AcceptedBet(n) # 0 THEN "deal" ELSE "bet"
    /\ UNCHANGED <<deck, playerHand, dealerHand, bank, rounds, hits>>

\* lines 182-183, one pass on an input that int() rejects: ValueError, pass
BetNotANumber ==
    /\ pc = "bet"
    /\ rounds < MaxRounds
    /\ bet' = bet
    /\ UNCHANGED <<deck, playerHand, dealerHand, bank, pc, rounds, hits>>

\* lines 185-187: game.start_round()
StartRound ==
    /\ pc = "deal"
    /\ \E shuffled \in ShuffleOutcomes(deck) :
        LET t == start_round(Table(deck, playerHand, dealerHand), shuffled, bank)
        IN  /\ deck' = t.deck
            /\ playerHand' = t.player
            /\ dealerHand' = t.dealer
    /\ pc' = "turn"
    /\ rounds' = rounds + 1
    /\ hits' = 0
    /\ UNCHANGED <<bank, bet>>

\* mutant: the loop never ends at its top
TurnEndsAtTop_Never(hand) == FALSE

\* line 191: the test that ends the player's loop at its top
TurnEndsAtTop(hand) == get_best_value(hand) = BustLimit

\* mutant: a hit that reaches 21 does not end the loop
TurnEndsAfterHit_Never(hand) == FALSE

\* line 207: the test that ends the player's loop after a hit
TurnEndsAfterHit(hand) == get_best_value(hand) = BustLimit

\* lines 190-192: the hand is worth 21 at the top of the loop
TurnTwentyOne ==
    /\ pc = "turn"
    /\ TurnEndsAtTop(playerHand)
    /\ pc' = "result"
    /\ UNCHANGED <<deck, playerHand, dealerHand, bank, bet, rounds, hits>>

\* lines 194-201: counter = 0; input 's'
Stay ==
    /\ pc = "turn"
    /\ ~TurnEndsAtTop(playerHand)
    /\ pc' = "result"
    /\ UNCHANGED <<deck, playerHand, dealerHand, bank, bet, rounds, hits>>

\* line 203 after line 194: the test `counter < 3` on the counter just reset
HitPermitted == LET counter == 0 IN counter < HitCounterLimit

\* lines 194-208: counter = 0; input 'h', and the deck has a card to give
HitDraw ==
    /\ pc = "turn"
    /\ ~TurnEndsAtTop(playerHand)
    /\ HitPermitted
    /\ ~draw_raises(deck)
    /\ LET r == draw_card(playerHand, deck)
       IN  /\ playerHand' = r.hand
           /\ deck' = r.deck
           /\ pc' = IF TurnEndsAfterHit(r.hand) THEN "result" ELSE "turn"
    /\ hits' = hits + 1
    /\ UNCHANGED <<dealerHand, bank, bet, rounds>>

\* a hit of a round explored up to MaxHits hits
Hit == hits < MaxHits /\ HitDraw

\* lines 194-205: counter = 0; input 'h' on an empty deck: Deck.draw raises
\* IndexError inside draw_card before anything is appended, nothing catches
\* it and the script ends with the traceback
HitOutOfCards ==
    /\ pc = "turn"
    /\ ~TurnEndsAtTop(playerHand)
    /\ HitPermitted
    /\ draw_raises(deck)
    /\ pc' = "error"
    /\ UNCHANGED <<deck, playerHand, dealerHand, bank, bet, rounds, hits>>

\* lines 209-210: any other input (or 'h' refused): a message, the loop goes on
BadCommand ==
    /\ pc = "turn"
    /\ ~TurnEndsAtTop(playerHand)
    /\ pc' = "turn"
    /\ UNCHANGED <<deck, playerHand, dealerHand, bank, bet, rounds, hits>>

\* lines 212-215: result == 21
SettleTwentyOne ==
    /\ pc = "result"
    /\ get_best_value(playerHand) = BustLimit
    /\ bank' = bank + bet
    /\ pc' = "discard"
    /\ UNCHANGED <<deck, playerHand, dealerHand, bet, rounds, hits>>

\* lines 217-218: not busted, the dealer's turn begins
BeginDealerTurn ==
    /\ pc = "result"
    /\ get_best_value(playerHand) # BustLimit
    /\ ~check_busted(playerHand)
    /\ pc' = "dealer"
    /\ UNCHANGED <<deck, playerHand, dealerHand, bank, bet, rounds, hits>>

\* lines 232-234: busted
SettleBusted ==
    /\ pc = "result"
    /\ get_best_value(playerHand) # BustLimit
    /\ check_busted(playerHand)
    /\ bank' = bank - bet
    /\ pc' = "discard"
    /\ UNCHANGED <<deck, playerHand, dealerHand, bet, rounds, hits>>

\* mutant: the dealer draws to 17 whatever the player holds
DealerMustDraw_ToSeventeen(dealer_score, result) == dealer_score < DealerStandsAt

\* mutant: the dealer's loop never stops of itself
DealerMustDraw_Always(dealer_score, result) == TRUE

\* line 220: the test of the dealer's loop
DealerMustDraw(dealer_score, result) ==
    dealer_score < DealerStandsAt /\ dealer_score < result

\* lines 220-223: one pass of the dealer's loop
DealerDraw ==
    /\ pc = "dealer"
    /\ DealerMustDraw(get_best_value(dealerHand), get_best_value(playerHand))
    /\ ~draw_raises(deck)
    /\ dealerHand' = draw_card(dealerHand, deck).hand
    /\ deck' = draw_card(dealerHand, deck).deck
    /\ UNCHANGED <<playerHand, bank, bet, pc, rounds, hits>>

\* mutant: a tie is a push, the bank is left alone
DealerPayout_Push(dealer_score, result, wager) ==
    IF dealer_score < DealerBustAt /\ dealer_score > result THEN 0 - wager
    ELSE IF dealer_score = result THEN 0 ELSE wager

\* mutant: a bust dealer still wins with the higher total
DealerPayout_NoBustCheck(dealer_score, result, wager) ==
    IF dealer_score >= result THEN 0 - wager ELSE wager

\* lines 225-230: what is added to the player's bank after the dealer's turn
DealerPayout(dealer_score, result, wager) ==
    IF dealer_score < DealerBustAt /\ dealer_score >= result
    THEN 0 - wager ELSE wager

\* lines 225-230: the dealer's loop has ended
DealerSettle ==
    /\ pc = "dealer"
    /\ ~DealerMustDraw(get_best_value(dealerHand), get_best_value(playerHand))
    /\ bank' = bank + DealerPayout(get_best_value(dealerHand),
                                   get_best_value(playerHand), bet)
    /\ pc' = "discard"
    /\ UNCHANGED <<deck, playerHand, dealerHand, bet, rounds, hits>>

\* mutant: only the player's hand goes back to the deck
Discards_PlayerOnly(p, q) == p

\* mutant: the hands are emptied without going back to the deck
Discards_Dropped(p, q) == <<>>

\* line 236: discards = player.hand + game.dealer.hand
Discards(p, q) == p \o q

\* lines 236-242 and, when the game goes on, 175-176 (bet = 0)
Discard ==
    /\ pc = "discard"
    /\ deck' = deck \o Discards(playerHand, dealerHand)
    /\ playerHand' = <<>>
    /\ dealerHand' = <<>>
    /\ IF bank <= 0
       THEN pc' = "over" /\ bet' = bet
       ELSE pc' = "bet" /\ bet' = 0
    /\ UNCHANGED <<bank, rounds, hits>>

Next ==
    \/ PlaceBet
    \/ BetNotANumber
    \/ StartRound
    \/ TurnTwentyOne
    \/ Stay
    \/ Hit
    \/ BadCommand
    \/ SettleTwentyOne
    \/ BeginDealerTurn
    \/ SettleBusted
    \/ DealerDraw
    \/ DealerSettle
    \/ Discard

Spec == Init /\ [][Next]_vars

(***************************************************************************)
(* A second specification, for the hand evaluator alone: a test deck is    *)
(* worked through from the top and each card is either drawn into the      *)
(* player's hand (draw_card) or drawn and put aside (draw), so that the    *)
(* hand ranges over the selections of at most MaxEvalHand cards of the     *)
(* test deck.  The test deck is the Hearts and the four aces, in the order *)
(* of Deck.__init__ or in the reverse order.                               *)
(***************************************************************************)
EvalCards == {c \in 1..DeckSize : CardSuit(c) = "Hearts" \/ CardVal(c) = "A"}

EvalDecks ==
    {SelectSeq(NewDeck, LAMBDA c : c \in EvalCards),
     SelectSeq(Descending, LAMBDA c : c \in EvalCards)}

InitEval ==
    /\ deck \in EvalDecks
    /\ playerHand = <<>>
    /\ dealerHand = <<>>
    /\ bank = InitialBank
    /\ bet = 0
    /\ pc = "eval"
    /\ rounds = 0
    /\ hits = 0

EvalDraw ==
    /\ pc = "eval"
    /\ deck # <<>>
    /\ Len(playerHand) < MaxEvalHand
    /\ playerHand' = draw_card(playerHand, deck).hand
    /\ deck' = draw_card(playerHand, deck).deck
    /\ UNCHANGED <<dealerHand, bank, bet, pc, rounds, hits>>

EvalPutAside ==
    /\ pc = "eval"
    /\ deck # <<>>
    /\ deck' = draw(deck).deck
    /\ UNCHANGED <<playerHand, dealerHand, bank, bet, pc, rounds, hits>>

NextEval == EvalDraw \/ EvalPutAside

SpecEval == InitEval /\ [][NextEval]_vars

(***************************************************************************)
(* A third specification: beside the script, a caller that builds a game   *)
(* around one Player(name, bank) and calls start_round and                 *)
(* deal_round_of_cards on it directly (pc = "api").  The bank of a player  *)
(* built by a caller is any integer; the script's player starts with the   *)
(* default bank.                                                           *)
(***************************************************************************)
ApiBanks == {-1, 0, 1, InitialBank}

\* the number of cards the dealer holds at which the caller stops dealing
MaxApiDeals == 4

InitDeal ==
    /\ deck = NewDeck
    /\ playerHand = <<>>
    /\ dealerHand = <<>>
    /\ bet = 0
    /\ rounds = 0
    /\ hits = 0
    /\ \/ pc = "bet" /\ bank = InitialBank
       \/ pc = "api" /\ bank \in ApiBanks

\* game.start_round() on the new game
ApiStartRound ==
    /\ pc = "api"
    /\ dealerHand = <<>>
    /\ \E shuffled \in ShuffleOutcomes(deck) :
        LET t == start_round(Table(deck, playerHand, dealerHand), shuffled, bank)
        IN  /\ deck' = t.deck
            /\ playerHand' = t.player
            /\ dealerHand' = t.dealer
    /\ UNCHANGED <<bank, bet, pc, rounds, hits>>

\* game.deal_round_of_cards()
ApiDealRound ==
    /\ pc = "api"
    /\ Len(dealerHand) < MaxApiDeals
    /\ LET t == deal_round_of_cards(Table(deck, playerHand, dealerHand), bank)
       IN  /\ deck' = t.deck
           /\ playerHand' = t.player
           /\ dealerHand' = t.dealer
    /\ UNCHANGED <<bank, bet, pc, rounds, hits>>

NextDeal == Next \/ ApiStartRound \/ ApiDealRound

SpecDeal == InitDeal /\ [][NextDeal]_vars

(***************************************************************************)
(* A fourth specification: the script played for one round with no limit   *)
(* on the number of hits explored, so that the player's loop can be        *)
(* followed until the deck has no card left.                               *)
(***************************************************************************)
FirstBet == rounds = 0 /\ PlaceBet

FirstBetNotANumber == rounds = 0 /\ BetNotANumber

NextExhaust ==
    \/ FirstBet
    \/ FirstBetNotANumber
    \/ StartRound
    \/ TurnTwentyOne
    \/ Stay
    \/ HitDraw
    \/ HitOutOfCards
    \/ BadCommand
    \/ SettleTwentyOne
    \/ BeginDealerTurn
    \/ SettleBusted
    \/ DealerDraw
    \/ DealerSettle
    \/ Discard

SpecExhaust == Init /\ [][NextExhaust]_vars

(***************************************************************************)
(* The dealer's loop (lines 220-223) and the settlement after it read no   *)
(* input: once the script is there it goes on by itself.  The steps of the *)
(* player wait for the keyboard and get no fairness.                       *)
(***************************************************************************)
SpecDealerRuns ==
    SpecExhaust /\ WF_vars(DealerDraw) /\ WF_vars(DealerSettle)

(***************************************************************************)
(* A fifth specification: a caller builds two games with no arguments,     *)
(*     g1 = BlackJackGame(); g2 = BlackJackGame()                          *)
(* and then calls methods of g1 only (pc = "games").  Here the variables   *)
(* hold the objects of the heap: deck maps each Deck object to its _deck   *)
(* list, playerHand maps each Player object of a players list to its hand  *)
(* and dealerHand maps each game to the hand of its dealer.                *)
(*                                                                         *)
(* The default values of the parameters deck and players are built once,   *)
(* when the def statement of __init__ is executed (lines 81-82); __init__  *)
(* stores the object it is passed, and a fresh dealer (lines 85-87).       *)
(***************************************************************************)
Games == {1, 2}

\* the objects built by the def statement: Deck(jokers=False), [Player(name='Player1')]
DefaultDeck == "Deck(jokers=False)"
DefaultPlayer == "Player1"

\* self.deck = deck and self.players = players of a game built with no arguments
GameDeck(g) == DefaultDeck
GamePlayer(g) == DefaultPlayer

\* the number of cards the caller lets g1 take from its deck
MaxSharedCards == 8

InitShared ==
    /\ deck = [o \in {GameDeck(g) : g \in Games} |-> NewDeck]
    /\ playerHand = [o \in {GamePlayer(g) : g \in Games} |-> <<>>]
    /\ dealerHand = [g \in Games |-> <<>>]
    /\ bank = InitialBank
    /\ bet = 0
    /\ pc = "games"
    /\ rounds = 0
    /\ hits = 0

\* the table game g reaches through self.deck, self.players[0], self.dealer
GameTable(g) == Table(deck[GameDeck(g)], playerHand[GamePlayer(g)], dealerHand[g])

\* the heap after game g has turned its table into t
StoreTable(g, t) ==
    /\ deck' = [deck EXCEPT ![GameDeck(g)] = t.deck]
    /\ playerHand' = [playerHand EXCEPT ![GamePlayer(g)] = t.player]
    /\ dealerHand' = [dealerHand EXCEPT ![g] = t.dealer]

CardsTaken(g) == DeckSize - Len(deck[GameDeck(g)])

\* g1.start_round()
SharedStartRound ==
    /\ pc = "games"
    /\ CardsTaken(1) + 4 <= MaxSharedCards
    /\ \E shuffled \in ShuffleOutcomes(deck[GameDeck(1)]) :
          StoreTable(1, start_round(GameTable(1), shuffled, bank))
    /\ UNCHANGED <<bank, bet, pc, rounds, hits>>

\* g1.deal_round_of_cards()
SharedDealRound ==
    /\ pc = "games"
    /\ CardsTaken(1) + 2 <= MaxSharedCards
    /\ StoreTable(1, deal_round_of_cards(GameTable(1), bank))
    /\ UNCHANGED <<bank, bet, pc, rounds, hits>>

\* g1.players[0].draw_card(g1.deck)
SharedDrawCard ==
    /\ pc = "games"
    /\ CardsTaken(1) + 1 <= MaxSharedCards
    /\ LET r == draw_card(GameTable(1).player, GameTable(1).deck)
       IN  StoreTable(1, [GameTable(1) EXCEPT !.player = r.hand, !.deck = r.deck])
    /\ UNCHANGED <<bank, bet, pc, rounds, hits>>

NextShared == SharedStartRound \/ SharedDealRound \/ SharedDrawCard

SpecShared == InitShared /\ [][NextShared]_vars

(***************************************************************************)
(* The rules of the game as the specification states them, written on the  *)
(* fields of the cards and independently of get_best_value.                *)
(***************************************************************************)
\* number cards at face value, J/Q/K as 10; an ace is counted apart
RuleValue(v) ==
    CASE v = "2" -> 2 [] v = "3" -> 3 [] v = "4" -> 4 [] v = "5" -> 5
      [] v = "6" -> 6 [] v = "7" -> 7 [] v = "8" -> 8 [] v = "9" -> 9
      [] v = "10" -> 10 [] v = "J" -> 10 [] v = "Q" -> 10 [] v = "K" -> 10
      [] v = "A" -> 0

RECURSIVE Base(_)
Base(hand) ==
    IF hand = <<>> THEN 0 ELSE RuleValue(CardVal(Head(hand))) + Base(Tail(hand))

Aces(hand) == Cardinality({i \in DOMAIN hand : CardVal(hand[i]) = "A"})

\* every ace counted as 1
LowTotal(hand) == Base(hand) + Aces(hand)

\* the totals reachable by counting each ace as 1 or as 11
AceTotals(hand) == {Base(hand) + (Aces(hand) - k) + 11 * k : k \in 0..Aces(hand)}

IsBust(hand) == LowTotal(hand) > 21

\* the largest reachable total that does not exceed 21; the low total of a bust hand
Score(hand) ==
    IF IsBust(hand) THEN LowTotal(hand)
    ELSE CHOOSE t \in AceTotals(hand) :
            t <= 21 /\ \A u \in AceTotals(hand) : u <= 21 => u <= t

\* the step that settles the bet of the round
Settles == pc # "discard" /\ pc' = "discard"

AllCards == deck \o playerHand \o dealerHand

(***************************************************************************)
(* C1: no cards are created or lost.  In every reachable state each of the *)
(* 52 cards is in exactly one of the deck, the player's hand and the       *)
(* dealer's hand; between rounds (hands reset and recycled) the hands are  *)
(* empty and the deck holds all 52 cards.                                  *)
(***************************************************************************)
C1_CardsConserved ==
    /\ LET all == AllCards
       IN  /\ Len(all) = DeckSize
           /\ \A c \in 1..DeckSize :
                 Cardinality({i \in DOMAIN all : all[i] = c}) = 1
    /\ pc \in {"bet", "deal", "over"} =>
          playerHand = <<>> /\ dealerHand = <<>> /\ Len(deck) = DeckSize

\* the second round, after a recycling, with hits taken and dealer draws made
C1_SecondRoundPlayed ==
    /\ rounds = 2
    /\ pc = "discard"
    /\ Len(playerHand) > 2
    /\ Len(dealerHand) > 2

(***************************************************************************)
(* C2: turn cap.  The player's hand never exceeds 5 cards (the initial 2   *)
(* plus at most 3 hits).                                                   *)
(***************************************************************************)
C2_TurnCap == Len(playerHand) <= 5

(***************************************************************************)
(* C3: a hit that makes the player's hand bust ends the player's turn at   *)
(* once: with a bust hand the script is never back in the player's loop,   *)
(* where hit or stand is offered again.                                    *)
(***************************************************************************)
C3_BustEndsTurn == IsBust(playerHand) => pc # "turn"

(***************************************************************************)
(* C4: push.  When the bet is settled for a player who is not bust, does   *)
(* not hold 21 and whose score equals the dealer's final score, the bank   *)
(* is left unchanged (the claim as stated) / is decreased by the bet (the  *)
(* claim as amended).                                                      *)
(***************************************************************************)
Tie ==
    /\ ~IsBust(playerHand)
    /\ Score(playerHand) # 21
    /\ ~IsBust(dealerHand)
    /\ Score(playerHand) = Score(dealerHand)

C4_Push == [][(Settles /\ Tie) => bank' = bank]_vars

C4_TieLosesBet == [][(Settles /\ Tie) => bank' = bank - bet]_vars

\* a tie of the first round, settled
C4_TieSettled ==
    /\ pc = "discard"
    /\ rounds = 1
    /\ Tie
    /\ bank = InitialBank - bet

(***************************************************************************)
(* C5: bust sentinel.  For every hand whose low-ace total exceeds 21,      *)
(* get_best_value returns 0.                                               *)
(***************************************************************************)
C5_BustSentinel == IsBust(playerHand) => get_best_value(playerHand) = 0

(***************************************************************************)
(* C6: ace rule.  For every hand with non-ace total base and n aces whose  *)
(* low total base + n is at most 21, get_best_value returns base when      *)
(* n = 0, base + n + 10 when n >= 1 and that is at most 21, and base + n   *)
(* otherwise; the result is the largest total reachable by counting each   *)
(* ace as 1 or 11 that does not exceed 21.                                 *)
(***************************************************************************)
C6_AceRule ==
    LET base == Base(playerHand)
        n == Aces(playerHand)
    IN  base + n <= 21 =>
          /\ get_best_value(playerHand) =
                IF n = 0 THEN base
                ELSE IF base + n + 10 <= 21 THEN base + n + 10 ELSE base + n
          /\ get_best_value(playerHand) = Score(playerHand)

\* four aces and a seven: one ace high, 21
C6_FourAcesAndSeven ==
    /\ pc = "eval"
    /\ Aces(playerHand) = 4
    /\ Base(playerHand) = 7
    /\ get_best_value(playerHand) = 21

(***************************************************************************)
(* C7: check_busted(hand) is true if and only if the low-ace total of the  *)
(* hand exceeds 21; it is false for the empty hand.                        *)
(***************************************************************************)
C7_CheckBusted ==
    /\ check_busted(playerHand) <=> LowTotal(playerHand) > 21
    /\ playerHand = <<>> => ~check_busted(playerHand)

\* a bust hand that holds an ace
C7_BustWithAce ==
    /\ pc = "eval"
    /\ Aces(playerHand) >= 1
    /\ LowTotal(playerHand) > 21
    /\ check_busted(playerHand)

(***************************************************************************)
(* C8: natural.  When the player's initial two cards total 21, the player  *)
(* is offered no hit or stand (the loop is left with the hand as dealt),   *)
(* and the round settles with the bank increased by exactly the bet,       *)
(* whatever the dealer holds.                                              *)
(***************************************************************************)
Natural == Len(playerHand) = 2 /\ Score(playerHand) = 21

C8_Natural ==
    [][/\ (pc = "turn" /\ Natural) =>
            pc' = "result" /\ playerHand' = playerHand /\ deck' = deck
       /\ (pc = "result" /\ Natural) =>
            pc' = "discard" /\ bank' = bank + bet /\ dealerHand' = dealerHand]_vars

\* a natural of the first round against a dealer who holds 21 too, settled
C8_NaturalAgainstDealer21 ==
    /\ pc = "discard"
    /\ rounds = 1
    /\ Natural
    /\ Score(dealerHand) = 21
    /\ bank = InitialBank + bet

(***************************************************************************)
(* C9: a player whose hand is bust when the turn ends loses exactly the    *)
(* bet, whatever the dealer holds; hits taken after the bust leave the     *)
(* hand bust, so a busted player never ends the round with a win.          *)
(***************************************************************************)
C9_BustLosesBet ==
    [][/\ (pc = "result" /\ IsBust(playerHand)) =>
            pc' = "discard" /\ bank' = bank - bet
       /\ (pc = "turn" /\ IsBust(playerHand)) =>
            IsBust(playerHand') /\ bank' = bank
       /\ (Settles /\ IsBust(playerHand)) => bank' = bank - bet]_vars

\* a bust of the first round, with a hit taken after the bust, settled
C9_BustSettled ==
    /\ pc = "discard"
    /\ rounds = 1
    /\ IsBust(playerHand)
    /\ IsBust(SubSeq(playerHand, 1, Len(playerHand) - 1))
    /\ bank = InitialBank - bet

(***************************************************************************)
(* C10: for a player who ends the turn not bust and below 21: if the       *)
(* dealer's final hand is bust, or the player's score is strictly greater  *)
(* than the dealer's final score, the bank increases by exactly the bet;   *)
(* if the dealer's final score is at most 21 and strictly greater than the *)
(* player's score, the bank decreases by exactly the bet.                  *)
(***************************************************************************)
C10_WinOrLose ==
    [][(Settles /\ ~IsBust(playerHand) /\ Score(playerHand) < 21) =>
          /\ (IsBust(dealerHand) \/ Score(playerHand) > Score(dealerHand)) =>
                bank' = bank + bet
          /\ (~IsBust(dealerHand) /\ Score(dealerHand) > Score(playerHand)) =>
                bank' = bank - bet]_vars

\* a dealer bust of the first round against a standing player, settled
C10_DealerBustSettled ==
    /\ pc = "discard"
    /\ rounds = 1
    /\ ~IsBust(playerHand)
    /\ Score(playerHand) < 21
    /\ IsBust(dealerHand)
    /\ Score(dealerHand) > Score(playerHand)
    /\ bank = InitialBank + bet

(***************************************************************************)
(* C11: dealer policy.  During the dealer's turn the dealer draws a card   *)
(* exactly when its best value is below 17 and below the target (the       *)
(* score of the surviving player), one card from the top of the deck, and  *)
(* never draws otherwise; when the dealer's turn ends its value is at      *)
(* least 17 or at least the target.  A dealer worth 16 (6, 10) against a   *)
(* target of 19 draws; a dealer worth 19 (10, 9) against 18 stands.        *)
(***************************************************************************)
C11_DealerPolicy ==
    [][pc = "dealer" =>
          /\ (Score(dealerHand) < 17 /\ Score(dealerHand) < Score(playerHand)) =>
                /\ pc' = "dealer"
                /\ dealerHand' = Append(dealerHand, Head(deck))
                /\ deck' = Tail(deck)
          /\ ~(Score(dealerHand) < 17 /\ Score(dealerHand) < Score(playerHand)) =>
                /\ pc' = "discard"
                /\ dealerHand' = dealerHand
                /\ deck' = deck
          /\ pc' = "discard" =>
                Score(dealerHand) >= 17 \/ Score(dealerHand) >= Score(playerHand)
          /\ DealerMustDraw(16, 19)
          /\ ~DealerMustDraw(19, 18)]_vars

\* the dealer stood below 17 because it had reached the target
C11_DealerStoodOnTarget ==
    /\ pc = "discard"
    /\ ~IsBust(playerHand)
    /\ Score(playerHand) < 17
    /\ Score(dealerHand) < 17
    /\ Score(dealerHand) >= Score(playerHand)

(***************************************************************************)
(* C12: the player's bank is never negative.  Every bet accepted for a     *)
(* round is an integer with 1 <= bet <= bank (0, a negative number and a   *)
(* number above the bank are rejected and the prompt is repeated), and     *)
(* after any sequence of rounds bank >= 0.                                 *)
(***************************************************************************)
C12_BankNeverNegative ==
    /\ bank >= 0
    /\ pc = "bet" => bet = 0 /\ bank >= 1
    /\ pc \in {"deal", "turn", "result", "dealer"} => 1 <= bet /\ bet <= bank
    /\ pc = "bet" =>
          \A n \in BetInputs : AcceptedBet(n) # 0 <=> (1 <= n /\ n <= bank)

\* the whole bank was bet and lost
C12_WholeBankLost ==
    /\ pc = "over"
    /\ bet = InitialBank
    /\ bank = 0

(***************************************************************************)
(* C13: initial deal.  start_round on the 52-card deck with one active     *)
(* player deals, from the top of the shuffled order, player, dealer,       *)
(* player, dealer: the player holds the 1st and 3rd card of the shuffled   *)
(* order, the dealer the 2nd and 4th, and the deck keeps the other 48.     *)
(***************************************************************************)
C13_InitialDeal ==
    /\ pc = "deal" =>
          /\ bank > 0
          /\ Len(deck) = 52
          /\ \A s \in ShuffleOutcomes(deck) :
                start_round(Table(deck, playerHand, dealerHand), s, bank) =
                    [player |-> <<s[1], s[3]>>,
                     dealer |-> <<s[2], s[4]>>,
                     deck |-> SubSeq(s, 5, 52)]
    /\ (pc = "turn" /\ hits = 0) =>
          /\ Len(playerHand) = 2
          /\ Len(dealerHand) = 2
          /\ Len(deck) = 48
          /\ <<playerHand[1], dealerHand[1], playerHand[2], dealerHand[2]>> \o deck
                \in ShuffleOrders

\* the second round dealt, after a recycling
C13_SecondRoundDealt ==
    /\ pc = "turn"
    /\ hits = 0
    /\ rounds = 2
    /\ Len(playerHand) = 2
    /\ Len(dealerHand) = 2
    /\ Len(deck) = 48

(***************************************************************************)
(* C16: a participant whose bank is <= 0 is never dealt a card by          *)
(* deal_round_of_cards (nor by start_round, which calls it), while the     *)
(* dealer is dealt one card on every call, from the top of the deck.  In   *)
(* the script, once the bank is <= 0 after settlement the game ends: no    *)
(* bet is taken and no round is started for a player with bank <= 0.       *)
(***************************************************************************)
C16_BrokeNotDealt ==
    /\ []((pc # "api" /\ bank <= 0) => pc \in {"discard", "over"})
    /\ [][/\ (pc = "api" /\ bank <= 0) =>
                /\ playerHand' = playerHand
                /\ Len(dealerHand') > Len(dealerHand)
                /\ SubSeq(dealerHand', 1, Len(dealerHand)) = dealerHand
                /\ Range(dealerHand') \cup Range(deck') = Range(dealerHand) \cup Range(deck)
                /\ Len(dealerHand') + Len(deck') = 52
          /\ (pc = "api" /\ bank > 0) =>
                /\ Len(playerHand') > Len(playerHand)
                /\ Len(dealerHand') - Len(dealerHand) = Len(playerHand') - Len(playerHand)
          /\ (pc = "discard" /\ bank <= 0) => pc' = "over"
          /\ pc = "over" => pc' = "over" /\ bet' = bet /\ playerHand' = playerHand
          /\ pc' \in {"deal", "turn"} => bank' > 0]_vars

\* the dealer was dealt twice beside a player without money, who holds nothing
C16_DealerDealtAlone ==
    /\ pc = "api"
    /\ bank <= 0
    /\ playerHand = <<>>
    /\ Len(dealerHand) >= 2
    /\ Len(deck) = 52 - Len(dealerHand)

(***************************************************************************)
(* C17: a hit that brings the player's best value to exactly 21 ends the   *)
(* player's turn immediately: the step that draws the card leaves the      *)
(* player's loop, and the player draws no more cards in that round (the    *)
(* hand stays as it is until it is discarded).                             *)
(***************************************************************************)
C17_HitToTwentyOne ==
    [][/\ (pc = "turn" /\ Len(playerHand') > Len(playerHand)
              /\ Score(playerHand') = 21) => pc' = "result"
       /\ (pc \in {"result", "dealer"} /\ Score(playerHand) = 21) =>
              playerHand' = playerHand /\ pc' # "turn"
       /\ (pc = "turn" /\ Score(playerHand) = 21) =>
              playerHand' = playerHand /\ pc' = "result"]_vars

\* a hand of more than two cards worth 21 was paid
C17_TwentyOneByHit ==
    /\ pc = "discard"
    /\ Len(playerHand) > 2
    /\ Score(playerHand) = 21
    /\ bank = InitialBank + bet

(***************************************************************************)
(* C18: at the start of every round, before the shuffle and the deal and   *)
(* after any number of earlier rounds, both hands are empty and the deck   *)
(* consists of 52 cards: every pair of one of the 4 suits and one of the   *)
(* 13 ranks, exactly once.                                                 *)
(***************************************************************************)
C18_FullDeckAtRoundStart ==
    pc \in {"bet", "deal"} =>
        /\ playerHand = <<>>
        /\ dealerHand = <<>>
        /\ Len(deck) = 52
        /\ Cardinality(Range(suits)) = 4
        /\ Cardinality(Range(cards)) = 13
        /\ {Card(deck[i]) : i \in DOMAIN deck} =
              {[suit |-> s, val |-> v] : s \in Range(suits), v \in Range(cards)}

\* a second round is about to start on a deck that was played and recycled
C18_RecycledDeckBeforeDeal ==
    /\ pc = "deal"
    /\ rounds = 1
    /\ deck # NewDeck
    /\ Len(deck) = 52

(***************************************************************************)
(* C14: within a round no draw (initial deal, hit or dealer draw) is ever  *)
(* attempted on an empty deck: for every sequence of player actions the    *)
(* game stops dealing before the deck is exhausted, so the out-of-cards    *)
(* error is never raised.                                                  *)
(***************************************************************************)
C14_NeverOutOfCards == pc # "error"

(***************************************************************************)
(* C15: Deck.draw on a non-empty deck removes and returns the top card and *)
(* leaves the order of the rest unchanged; Deck.peek returns the same top  *)
(* card without removing it.  On an empty deck both fail with the          *)
(* out-of-cards error, and the failed draw leaves the deck and the hand of *)
(* the player who called draw_card unchanged.                              *)
(***************************************************************************)
C15_DrawAndPeek ==
    /\ [](IF deck # <<>>
          THEN /\ ~draw_raises(deck)
               /\ ~peek_raises(deck)
               /\ draw(deck).card = deck[1]
               /\ draw(deck).deck = SubSeq(deck, 2, Len(deck))
               /\ peek(deck) = draw(deck).card
               /\ \A hand \in {playerHand, dealerHand} :
                     draw_card(hand, deck) =
                         [hand |-> hand \o <<deck[1]>>,
                          deck |-> SubSeq(deck, 2, Len(deck))]
          ELSE draw_raises(deck) /\ peek_raises(deck))
    /\ [][/\ (pc = "turn" /\ playerHand' # playerHand) =>
                /\ playerHand' = playerHand \o <<deck[1]>>
                /\ deck' = SubSeq(deck, 2, Len(deck))
          /\ (pc = "dealer" /\ dealerHand' # dealerHand) =>
                /\ dealerHand' = dealerHand \o <<deck[1]>>
                /\ deck' = SubSeq(deck, 2, Len(deck))
          /\ pc' = "error" =>
                /\ deck = <<>>
                /\ deck' = deck
                /\ playerHand' = playerHand
                /\ dealerHand' = dealerHand]_vars

\* the draw failed on the empty deck: the player holds all the cards but the dealer's two
C15_DrawFailedOnEmptyDeck ==
    /\ pc = "error"
    /\ deck = <<>>
    /\ Len(playerHand) = 50
    /\ Len(dealerHand) = 2

(***************************************************************************)
(* C19: the dealer's turn always terminates.  It is entered with a player  *)
(* hand that is not bust and below 21; whatever the shuffled deck, the     *)
(* dealer's loop never needs a card from an empty deck, the dealer holds a *)
(* bounded number of cards, and the turn is followed by the settlement of  *)
(* the round.                                                              *)
(***************************************************************************)
C19_DealerTurnTerminates ==
    /\ [](pc = "dealer" =>
            /\ ~IsBust(playerHand)
            /\ Score(playerHand) < 21
            /\ Len(dealerHand) <= 2 + DealerStandsAt
            /\ DealerMustDraw(Score(dealerHand), Score(playerHand)) => deck # <<>>)
    /\ (pc = "dealer" ~> pc = "discard")

\* the dealer drew at least twice and the round was settled
C19_DealerDrewAndSettled ==
    /\ pc = "discard"
    /\ ~IsBust(playerHand)
    /\ Score(playerHand) < 21
    /\ Len(dealerHand) >= 4
    /\ deck # <<>>

(***************************************************************************)
(* C20: each game owns its own deck and player list.  Two games built      *)
(* with no deck and no players argument share no state: whatever is done   *)
(* with the first game (a round started, cards dealt or drawn), the deck   *)
(* of the second game still holds its 52 cards in the order it was built   *)
(* in and the hands of its players and of its dealer are still empty.      *)
(***************************************************************************)
C20_GamesShareNoState ==
    /\ deck[GameDeck(2)] = NewDeck
    /\ playerHand[GamePlayer(2)] = <<>>
    /\ dealerHand[2] = <<>>

====
